---- MODULE Spec2Model ----
(***************************************************************************)
(* Model of two components of the configuration core:                      *)
(*   - LavalinkAutoUpdateManager, the per-setting cache manager            *)
(*     (redbot/cogs/audio/core/utilities/setting_cache/                    *)
(*      managed_lavalink_auto_update.py), specifications Spec and          *)
(*     SpecSequential;                                                     *)
(*   - APIDriver, the remote HTTP driver (redbot/core/drivers/apidriver.py)*)
(*     specifications SpecDriver and SpecImport.                           *)
(* Coroutines are cooperative tasks: a task gives up control only at an    *)
(* await, so every action below is the code between two awaits.            *)
(***************************************************************************)
EXTENDS Integers, Sequences, FiniteSets, Bags, TLC

\* ------------------------------------------------------------------------
\* Bounds
\* ------------------------------------------------------------------------
\* number of concurrent call sites (tasks) using the manager
NumTasks == 2
\* number of manager operations invoked in one behaviour
MaxOps == 3

Tasks == 1..NumTasks

\* ------------------------------------------------------------------------
\* Python values
\* ------------------------------------------------------------------------
\* Optional[bool]: None is the empty sequence, a real value b is <<b>>
None == << >>
Some(b) == << b >>
OptionalBool == {None} \cup {Some(b) : b \in BOOLEAN}

\* the one key of _cached_global (the dict is keyed by None)
NoneKey == "None"
\* the path of the setting in the Config: lavalink.autoupdate
AutoupdateKey == "autoupdate"

\* dict operations
EmptyDict == [k \in {} |-> FALSE]
DictSet(d, k, v) == [x \in DOMAIN d \cup {k} |-> IF x = k THEN v ELSE d[x]]
DictDel(d, k) == [x \in DOMAIN d \ {k} |-> d[x]]
BoolDicts(k) == {EmptyDict} \cup {DictSet(EmptyDict, k, b) : b \in BOOLEAN}

VARIABLES
    \* ---- LavalinkAutoUpdateManager
    enable_cache,     \* self.enable_cache
    cached_global,    \* self._cached_global
    \* ---- the Config behind the manager
    config_store,     \* the stored value of lavalink.autoupdate, if any
    config_default,   \* defaults["GLOBAL"]["lavalink"]["autoupdate"]
    \* ---- the coroutines using the manager
    pc,               \* where each task is: idle, or suspended at its await
    arg,              \* set_to of the set_global a task runs
    resp,             \* what the backend call of a task produced
    reads,            \* backend reads made for the running operation of a task
    inv,              \* what had just happened when the task invoked its operation
    last,             \* the latest step: what it was and, for a completion, its result
    nops,             \* operations invoked so far
    \* ---- APIDriver and the remote config service
    orjson,           \* the codec found at import (lines 12-23): orjson, else ujson
    accepts,          \* the client session takes the keywords json_serialize and param
    session,          \* APIDriver.__session: "none", "open" or "closed"
    leaked,           \* sessions created, still open, that the class no longer holds
    server,           \* what the remote service stores: identifier -> JSON value
    \* ---- the coroutines calling the driver
    dreq,             \* the bag of the driver operations in flight
    dlast,            \* the latest driver step and its outcome
    dn,               \* driver operations invoked so far
    \* ---- import_data
    cog_data,         \* its argument: a sequence of (category, payload)
    ipc,              \* where import_data is
    icat,             \* index in cog_data of the category being converted
    ileaf,            \* index of the next leaf in _individual_migrate
    ilog,             \* the set calls made so far and how each ended
    \* ---- two managers, one caching and one not, given the same calls
    managers,         \* enable_cache -> the manager constructed with it, and its Config
    sdefault,         \* defaults["GLOBAL"]["lavalink"]["autoupdate"] of both
    stask,            \* enable_cache -> task -> the call it runs on that manager
    sret,             \* enable_cache -> the latest call of that manager that is over
    sn,               \* calls made so far
    sseq              \* so far every call returned before the next one was made

mvars == << enable_cache, cached_global, config_store, config_default,
            pc, arg, resp, reads, inv, last, nops >>
svars == << orjson, accepts, session, leaked, server >>
cvars == << dreq, dlast, dn >>
ivars == << cog_data, ipc, icat, ileaf, ilog >>
pvars == << managers, sdefault, stask, sret, sn, sseq >>
\* everything but the manager
drv == << svars, cvars, ivars, pvars >>

vars == << mvars, svars, cvars, ivars, pvars >>

\* ------------------------------------------------------------------------
\* The Config behind the manager
\* ------------------------------------------------------------------------
\* await self._config.lavalink.autoupdate(): the stored value, or the declared
\* default when nothing is stored
ConfigRead(store, default) ==
    IF AutoupdateKey \in DOMAIN store THEN store[AutoupdateKey] ELSE default

\* ------------------------------------------------------------------------
\* Observation of the latest step
\* ------------------------------------------------------------------------
\* what an invocation remembers of the step before it: the completion of
\* set_global(x), the completion of set_global(None), reset_globals, or other
\* (ev, val); seq: that operation ran with no other operation in flight;
\* solo: so far no other operation was in flight during this one
NoCtx == [ev |-> "other", val |-> FALSE, seq |-> FALSE, solo |-> FALSE]
Alone(t) == \A u \in Tasks \ {t} : pc[u] = "idle"
Ctx(l, t) == IF l.ev \in {"set_done", "clear_done", "reset"}
             THEN [ev |-> l.ev, val |-> l.val, seq |-> l.after.solo, solo |-> Alone(t)]
             ELSE [NoCtx EXCEPT !.solo = Alone(t)]
\* task t suspends in an operation invoked now: the operations in flight
\* are no longer alone
Suspend(t) == [u \in Tasks |-> IF u = t THEN Ctx(last, t)
                                        ELSE [inv[u] EXCEPT !.solo = FALSE]]
\* ev: the step; val: the value returned or written; n: backend reads made by
\* the operation that completed; after: the Ctx of its invocation
Step(e, v, n, c) == [ev |-> e, val |-> v, n |-> n, after |-> c]
Plain(e) == Step(e, FALSE, 0, NoCtx)
NoResp == [ok |-> FALSE, val |-> FALSE]

ManagerInit ==
    /\ enable_cache \in BOOLEAN
    /\ cached_global = EmptyDict
    /\ config_store \in BoolDicts(AutoupdateKey)
    /\ config_default \in BOOLEAN
    /\ pc = [t \in Tasks |-> "idle"]
    /\ arg = [t \in Tasks |-> None]
    /\ resp = [t \in Tasks |-> NoResp]
    /\ reads = [t \in Tasks |-> 0]
    /\ inv = [t \in Tasks |-> NoCtx]
    /\ last = Plain("init")
    /\ nops = 0

\* a task invokes an operation of the manager; idle tasks are interchangeable,
\* the first of them makes the call
Invoke(t) ==
    /\ pc[t] = "idle"
    /\ \A u \in Tasks : u < t => pc[u] # "idle"
    /\ nops < MaxOps
    /\ nops' = nops + 1

\* the operation of a task is over: the task is idle again
Finish(t) ==
    /\ pc' = [pc EXCEPT ![t] = "idle"]
    /\ arg' = [arg EXCEPT ![t] = None]
    /\ resp' = [resp EXCEPT ![t] = NoResp]
    /\ reads' = [reads EXCEPT ![t] = 0]
    /\ inv' = [inv EXCEPT ![t] = NoCtx]

\* get_global, line 21: the cached value is used
CacheHit(d) == enable_cache /\ NoneKey \in DOMAIN d

\* get_global up to its await (lines 19-24); on a hit it returns at once
GetGlobal(t) ==
    /\ Invoke(t)
    /\ IF CacheHit(cached_global)
       THEN /\ last' = Step("get_return", cached_global[NoneKey], 0, Ctx(last, t))
            /\ UNCHANGED << pc, inv >>
       ELSE /\ last' = Plain("get_call")
            /\ pc' = [pc EXCEPT ![t] = "get_call"]
            /\ inv' = Suspend(t)
    /\ UNCHANGED << enable_cache, cached_global, config_store, config_default,
                    arg, resp, reads >>
    /\ UNCHANGED drv

\* get_global after its await (lines 25-26); when the await raised, the
\* exception leaves get_global at line 24
GetGlobalResume(t) ==
    /\ pc[t] = "get_resp"
    /\ Finish(t)
    /\ IF resp[t].ok
       THEN /\ cached_global' = DictSet(cached_global, NoneKey, resp[t].val)
            /\ last' = Step("get_return", resp[t].val, reads[t], inv[t])
       ELSE /\ cached_global' = cached_global
            /\ last' = Step("get_raise", FALSE, reads[t], inv[t])
    /\ UNCHANGED << enable_cache, config_store, config_default, nops >>
    /\ UNCHANGED drv

\* set_global updating the cache before its await instead of after it
SetGlobalCacheFirst(t, set_to) ==
    /\ Invoke(t)
    /\ arg' = [arg EXCEPT ![t] = set_to]
    /\ inv' = Suspend(t)
    /\ IF set_to # None
       THEN /\ pc' = [pc EXCEPT ![t] = "set_call"]
            /\ cached_global' = DictSet(cached_global, NoneKey, set_to[1])
            /\ last' = Plain("set_call")
       ELSE /\ pc' = [pc EXCEPT ![t] = "clear_call"]
            /\ cached_global' = DictSet(cached_global, NoneKey, config_default)
            /\ last' = Plain("clear_call")
    /\ UNCHANGED << enable_cache, config_store, config_default, resp, reads >>
    /\ UNCHANGED drv

\* set_global up to its await (lines 28-30 for a real value, 32-33 for None)
SetGlobal(t, set_to) ==
    /\ Invoke(t)
    /\ arg' = [arg EXCEPT ![t] = set_to]
    /\ inv' = Suspend(t)
    /\ IF set_to # None
       THEN /\ pc' = [pc EXCEPT ![t] = "set_call"]
            /\ last' = Plain("set_call")
       ELSE /\ pc' = [pc EXCEPT ![t] = "clear_call"]
            /\ last' = Plain("clear_call")
    /\ UNCHANGED << enable_cache, cached_global, config_store, config_default,
                    resp, reads >>
    /\ UNCHANGED drv

\* set_global forgetting line 31: a real value is written to the backend only
SetGlobalResumeNoCache(t) ==
    /\ pc[t] \in {"set_resp", "clear_resp"}
    /\ Finish(t)
    /\ IF resp[t].ok
       THEN IF pc[t] = "set_resp"
            THEN /\ cached_global' = cached_global
                 /\ last' = Step("set_done", arg[t][1], 0, inv[t])
            ELSE /\ cached_global' = DictSet(cached_global, NoneKey, config_default)
                 /\ last' = Step("clear_done", config_default, 0, inv[t])
       ELSE /\ cached_global' = cached_global
            /\ last' = Step("set_raise", FALSE, 0, inv[t])
    /\ UNCHANGED << enable_cache, config_store, config_default, nops >>
    /\ UNCHANGED drv

\* set_global forgetting line 34: after a clear the cache keeps its old entry
SetGlobalResumeKeepsOld(t) ==
    /\ pc[t] \in {"set_resp", "clear_resp"}
    /\ Finish(t)
    /\ IF resp[t].ok
       THEN IF pc[t] = "set_resp"
            THEN /\ cached_global' = DictSet(cached_global, NoneKey, arg[t][1])
                 /\ last' = Step("set_done", arg[t][1], 0, inv[t])
            ELSE /\ cached_global' = cached_global
                 /\ last' = Step("clear_done", config_default, 0, inv[t])
       ELSE /\ cached_global' = cached_global
            /\ last' = Step("set_raise", FALSE, 0, inv[t])
    /\ UNCHANGED << enable_cache, config_store, config_default, nops >>
    /\ UNCHANGED drv

\* set_global after its await (line 31, or line 34); when the await raised,
\* the exception leaves set_global at line 30 or 33
SetGlobalResume(t) ==
    /\ pc[t] \in {"set_resp", "clear_resp"}
    /\ Finish(t)
    /\ IF resp[t].ok
       THEN IF pc[t] = "set_resp"
            THEN /\ cached_global' = DictSet(cached_global, NoneKey, arg[t][1])
                 /\ last' = Step("set_done", arg[t][1], 0, inv[t])
            ELSE /\ cached_global' = DictSet(cached_global, NoneKey, config_default)
                 /\ last' = Step("clear_done", config_default, 0, inv[t])
       ELSE /\ cached_global' = cached_global
            /\ last' = Step("set_raise", FALSE, 0, inv[t])
    /\ UNCHANGED << enable_cache, config_store, config_default, nops >>
    /\ UNCHANGED drv

\* reset_globals with its test inverted: the entry is never deleted
ResetGlobalsKeeps ==
    /\ nops < MaxOps
    /\ nops' = nops + 1
    /\ cached_global' = IF NoneKey \notin DOMAIN cached_global
                        THEN DictDel(cached_global, NoneKey)
                        ELSE cached_global
    /\ last' = Plain("reset")
    /\ UNCHANGED << enable_cache, config_store, config_default,
                    pc, arg, resp, reads, inv >>
    /\ UNCHANGED drv

\* reset_globals (lines 39-41): synchronous, it never suspends
ResetGlobals ==
    /\ nops < MaxOps
    /\ nops' = nops + 1
    /\ cached_global' = IF NoneKey \in DOMAIN cached_global
                        THEN DictDel(cached_global, NoneKey)
                        ELSE cached_global
    /\ last' = Plain("reset")
    /\ UNCHANGED << enable_cache, config_store, config_default,
                    pc, arg, resp, reads, inv >>
    /\ UNCHANGED drv

\* the Config serves the call a task is suspended on
ConfigServe(t) ==
    /\ \/ /\ pc[t] = "get_call"
          /\ pc' = [pc EXCEPT ![t] = "get_resp"]
          /\ resp' = [resp EXCEPT ![t] =
                        [ok |-> TRUE, val |-> ConfigRead(config_store, config_default)]]
          /\ reads' = [reads EXCEPT ![t] = @ + 1]
          /\ config_store' = config_store
       \/ /\ pc[t] = "set_call"
          /\ pc' = [pc EXCEPT ![t] = "set_resp"]
          /\ resp' = [resp EXCEPT ![t] = [ok |-> TRUE, val |-> FALSE]]
          /\ config_store' = DictSet(config_store, AutoupdateKey, arg[t][1])
          /\ reads' = reads
       \/ /\ pc[t] = "clear_call"
          /\ pc' = [pc EXCEPT ![t] = "clear_resp"]
          /\ resp' = [resp EXCEPT ![t] = [ok |-> TRUE, val |-> FALSE]]
          /\ config_store' = DictDel(config_store, AutoupdateKey)
          /\ reads' = reads
    /\ last' = Plain(pc'[t])
    /\ UNCHANGED << enable_cache, cached_global, config_default, arg, inv, nops >>
    /\ UNCHANGED drv

\* the Config call of a task fails: nothing is stored and the await raises
ConfigFail(t) ==
    /\ pc[t] \in {"get_call", "set_call", "clear_call"}
    /\ pc' = [pc EXCEPT ![t] = CASE pc[t] = "get_call" -> "get_resp"
                                 [] pc[t] = "set_call" -> "set_resp"
                                 [] OTHER -> "clear_resp"]
    /\ resp' = [resp EXCEPT ![t] = NoResp]
    /\ reads' = [reads EXCEPT ![t] = IF pc[t] = "get_call" THEN @ + 1 ELSE @]
    /\ last' = Plain("backend_error")
    /\ UNCHANGED << enable_cache, cached_global, config_store, config_default,
                    arg, inv, nops >>
    /\ UNCHANGED drv

\* a task is cancelled while suspended: CancelledError is raised at its await
Cancel(t) ==
    /\ pc[t] # "idle"
    /\ Finish(t)
    /\ last' = Step(IF pc[t] \in {"get_call", "get_resp"}
                     THEN "get_cancelled" ELSE "set_cancelled",
                     FALSE, reads[t], inv[t])
    /\ UNCHANGED << enable_cache, cached_global, config_store, config_default, nops >>
    /\ UNCHANGED drv

\* ------------------------------------------------------------------------
\* A caching and a non-caching manager given the same calls (specification
\* SpecSequential)
\* ------------------------------------------------------------------------
\* number of calls made in one behaviour, and of guilds
MaxCalls == 3
NumGuilds == 2
Guilds == 1..NumGuilds

\* __init__ (lines 13-17), and the Config the manager is given
Manager(enable, store) ==
    [enable_cache |-> enable, cached_global |-> EmptyDict, store |-> store]
\* a coroutine running a call on a manager: where it is suspended, the
\* argument set_to, the value its backend read gave, the backend reads made
Coroutine(p, set_to, val, n) == [pc |-> p, arg |-> set_to, val |-> val, reads |-> n]
NoCoroutine == Coroutine("idle", None, FALSE, 0)
\* what a piece of a call, run from one suspension to the next, gives: the
\* manager after it, the coroutine (idle when the call is over), and then how
\* it ended, the value returned and the backend reads it made
Ran(m, k, how, ret) == [m |-> m, k |-> k, how |-> how, ret |-> ret, reads |-> k.reads]
Suspended(m, k) == Ran(m, k, "", None)
Over(m, how, ret, n) ==
    [m |-> m, k |-> NoCoroutine, how |-> how, ret |-> ret, reads |-> n]

\* get_global up to its await (lines 19-24); on a hit it returns at once
GetGlobalRun(m) ==
    IF m.enable_cache /\ NoneKey \in DOMAIN m.cached_global
    THEN Over(m, "return", Some(m.cached_global[NoneKey]), 0)
    ELSE Suspended(m, Coroutine("get_call", None, FALSE, 0))

\* set_global up to its await (lines 28-30 for a real value, 32-33 for None)
SetGlobalRun(m, set_to) ==
    Suspended(m, Coroutine(IF set_to # None THEN "set_call" ELSE "clear_call",
                           set_to, FALSE, 0))

\* get_context_value going to the backend whatever the cache holds
GetContextValueBypassing(m, guild) ==
    Suspended(m, Coroutine("get_call", None, FALSE, 0))

\* get_context_value (lines 36-37) up to the await of get_global: guild is
\* not used
GetContextValueRun(m, guild) == GetGlobalRun(m)

\* reset_globals (lines 39-41)
ResetGlobalsRun(m) ==
    Over([m EXCEPT !.cached_global = IF NoneKey \in DOMAIN @
                                     THEN DictDel(@, NoneKey) ELSE @],
         "return", None, 0)

\* the Config serves the call a coroutine is suspended on
ConfigRun(m, k, default) ==
    CASE k.pc = "get_call" ->
           Suspended(m, Coroutine("get_resp", k.arg, ConfigRead(m.store, default),
                                  k.reads + 1))
      [] k.pc = "set_call" ->
           Suspended([m EXCEPT !.store = DictSet(@, AutoupdateKey, k.arg[1])],
                     [k EXCEPT !.pc = "set_resp"])
      [] k.pc = "clear_call" ->
           Suspended([m EXCEPT !.store = DictDel(@, AutoupdateKey)],
                     [k EXCEPT !.pc = "clear_resp"])

\* set_global writing the backend only
ResumeKeepsCache(m, k, default) ==
    IF k.pc = "get_resp"
    THEN Over([m EXCEPT !.cached_global = DictSet(@, NoneKey, k.val)],
              "return", Some(k.val), k.reads)
    ELSE Over(m, "return", None, k.reads)

\* a call after its await: get_global (lines 25-26), set_global (line 31, or
\* line 34)
ResumeRun(m, k, default) ==
    CASE k.pc = "get_resp" ->
           Over([m EXCEPT !.cached_global = DictSet(@, NoneKey, k.val)],
                "return", Some(k.val), k.reads)
      [] k.pc = "set_resp" ->
           Over([m EXCEPT !.cached_global = DictSet(@, NoneKey, k.arg[1])],
                "return", None, k.reads)
      [] k.pc = "clear_resp" ->
           Over([m EXCEPT !.cached_global = DictSet(@, NoneKey, default)],
                "return", None, k.reads)

\* the await of a call raises: the backend call failed, or the coroutine was
\* cancelled; the exception leaves the call at its await (line 24, 30 or 33)
RaiseRun(m, k, how) == Over(m, how, None, k.reads)

AtCall(k) == k.pc \in {"get_call", "set_call", "clear_call"}
AtResp(k) == k.pc \in {"get_resp", "set_resp", "clear_resp"}
\* no call is running on either manager for task t
Free(t) == \A e \in BOOLEAN : stask[e][t].k.pc = "idle"

NoCallYet == [op |-> "", how |-> "", ret |-> None, reads |-> 0]
SequentialInit ==
    /\ \E store \in BoolDicts(AutoupdateKey) :
          managers = [e \in BOOLEAN |-> Manager(e, store)]
    /\ sdefault \in BOOLEAN
    /\ stask = [e \in BOOLEAN |-> [t \in Tasks |-> [op |-> "", k |-> NoCoroutine]]]
    /\ sret = [e \in BOOLEAN |-> NoCallYet]
    /\ sn = 0
    /\ sseq = TRUE

\* both managers take the same step for task t; ran[e] is what it gives on
\* the manager constructed with enable_cache = e, for those in moved. A call
\* that is over is the latest one of its manager
BothRun(t, name, moved, ran) ==
    /\ managers' = [e \in BOOLEAN |-> IF e \in moved THEN ran[e].m ELSE managers[e]]
    /\ stask' = [e \in BOOLEAN |->
                   IF e \in moved
                   THEN [stask[e] EXCEPT ![t] =
                           IF ran[e].how = "" THEN [op |-> name, k |-> ran[e].k]
                           ELSE [op |-> "", k |-> NoCoroutine]]
                   ELSE stask[e]]
    /\ sret' = [e \in BOOLEAN |->
                  IF e \in moved /\ ran[e].how # ""
                  THEN [op |-> name, how |-> ran[e].how, ret |-> ran[e].ret,
                        reads |-> ran[e].reads]
                  ELSE sret[e]]
    /\ UNCHANGED << sdefault, mvars, svars, cvars, ivars >>

\* the same call is made on both managers by task t, the first free one;
\* the calls stay in sequence if no other call is running
BothCall(t, name, ran) ==
    /\ Free(t)
    /\ \A u \in Tasks : u < t => ~Free(u)
    /\ sn < MaxCalls
    /\ sn' = sn + 1
    /\ sseq' = (sseq /\ \A u \in Tasks : Free(u))
    /\ BothRun(t, name, BOOLEAN, ran)

BothGetGlobal(t) ==
    BothCall(t, "get_global", [e \in BOOLEAN |-> GetGlobalRun(managers[e])])
BothSetGlobal(t, set_to) ==
    BothCall(t, "set_global", [e \in BOOLEAN |-> SetGlobalRun(managers[e], set_to)])
BothGetContextValue(t, guild) ==
    BothCall(t, "get_context_value",
             [e \in BOOLEAN |-> GetContextValueRun(managers[e], guild)])
\* reset_globals is synchronous: whoever calls it, no task is taken
BothResetGlobals ==
    /\ sn < MaxCalls
    /\ sn' = sn + 1
    /\ sseq' = (sseq /\ \A u \in Tasks : Free(u))
    /\ managers' = [e \in BOOLEAN |-> ResetGlobalsRun(managers[e]).m]
    /\ sret' = [e \in BOOLEAN |->
                  [op |-> "reset_globals", how |-> "return", ret |-> None, reads |-> 0]]
    /\ UNCHANGED << stask, sdefault, mvars, svars, cvars, ivars >>

\* the Config of each manager serves the call task t is suspended on
BothConfig(t) ==
    /\ \E e \in BOOLEAN :
          /\ AtCall(stask[e][t].k)
          /\ BothRun(t, stask[e][t].op, {f \in BOOLEAN : AtCall(stask[f][t].k)},
                     [f \in BOOLEAN |-> IF AtCall(stask[f][t].k)
                                        THEN ConfigRun(managers[f], stask[f][t].k, sdefault)
                                        ELSE Suspended(managers[f], stask[f][t].k)])
    /\ UNCHANGED << sn, sseq >>

\* the call of task t resumes after its await and returns
BothResume(t) ==
    /\ \E e \in BOOLEAN :
          /\ AtResp(stask[e][t].k)
          /\ BothRun(t, stask[e][t].op, {f \in BOOLEAN : AtResp(stask[f][t].k)},
                     [f \in BOOLEAN |-> IF AtResp(stask[f][t].k)
                                        THEN ResumeRun(managers[f], stask[f][t].k, sdefault)
                                        ELSE Suspended(managers[f], stask[f][t].k)])
    /\ UNCHANGED << sn, sseq >>

\* the backend call of task t fails, or task t is cancelled at its await
BothRaise(t, how) ==
    /\ \E e \in BOOLEAN :
          /\ IF how = "raise" THEN AtCall(stask[e][t].k) ELSE stask[e][t].k.pc # "idle"
          /\ BothRun(t, stask[e][t].op,
                     {f \in BOOLEAN : IF how = "raise" THEN AtCall(stask[f][t].k)
                                      ELSE stask[f][t].k.pc # "idle"},
                     [f \in BOOLEAN |-> RaiseRun(managers[f], stask[f][t].k, how)])
    /\ sseq' = FALSE
    /\ UNCHANGED sn

\* ------------------------------------------------------------------------
\* JSON values and the codec of the driver
\* ------------------------------------------------------------------------
\* a JSON value is a tagged pair; a str or bytes object holding the JSON text
\* of v keeps v, so that encoding and decoding are not the identity
JNull == << "null", 0 >>
JBool(b) == << "bool", b >>
JInt(n) == << "int", n >>
JText(v) == << "str", v >>
JBytes(v) == << "bytes", v >>
\* the JSON object {"value": v}
JObj(v) == << "obj", v >>

\* json_dumps (lines 12-23): orjson.dumps gives bytes, ujson.dumps gives str
JsonDumps(v) == IF orjson THEN JBytes(v) ELSE JText(v)
\* json_loads: the value a JSON text holds
JsonLoads(x) == x[2]
\* bytes.decode("utf-8") and str.encode(encoding)
Decode(x) == JText(x[2])
Encode(x) == JBytes(x[2])

\* _dump_to_string (lines 272-277)
DumpToString(v) == IF ~orjson THEN JsonDumps(v) ELSE Decode(JsonDumps(v))

\* _load_to_string (lines 264-270)
LoadToString(v) ==
    IF ~orjson THEN v
    ELSE IF v[1] = "bytes" THEN Decode(v)
    ELSE v

\* JsonPayload (lines 40-61): the bytes of the request body
JsonPayload(v) == IF orjson THEN JsonDumps(v) ELSE Encode(JsonDumps(v))

\* ------------------------------------------------------------------------
\* Identifiers and requests
\* ------------------------------------------------------------------------
\* number of keys at each level of a primary key
MaxKeys == 2
Keys == 1..MaxKeys
Categories == {"GLOBAL", "GUILD", "MEMBER"}
\* ConfigCategory.get_pkey_info: the primary-key arity of a category
PkeyLen(category) ==
    CASE category = "GLOBAL" -> 0
      [] category = "GUILD" -> 1
      [] category = "MEMBER" -> 2

\* IdentifierData(cog_name, unique_cog_identifier, category, pkey, (), ...)
\* .to_dict(): the cog is fixed, an identifier is (category, primary key)
IdentifierData(category, pkey) == << category, pkey >>

GET_ENDPOINT == "/config/get"
AITER_COGS_ENDPOINT == "/config/cogs"
SET_ENDPOINT == "/config/set"
INCREMENT_ENDPOINT == "/config/increment"
TOGGLE_ENDPOINT == "/config/toggle"
CLEAR_ENDPOINT == "/config/clear"
CLEAR_ALL_ENDPOINT == "/config/clear_all"

NoIdent == IdentifierData("", << >>)
\* a request: the body is the JsonPayload of (identifier, config_data, default)
Request(method, url, ident, data, dflt, param) ==
    [method |-> method, url |-> url,
     body |-> JsonPayload(<< ident, data, dflt >>), param |-> param]
NoReq == [method |-> "", url |-> "", body |-> JNull, param |-> FALSE]

\* set encoding its value twice
SetRequestEncodedTwice(i, value) ==
    Request("PUT", SET_ENDPOINT, i, DumpToString(DumpToString(value)), JNull, FALSE)

\* toggle sending its default as config_data and its value as default
ToggleRequestSwapped(i, value, dflt) ==
    Request("PUT", TOGGLE_ENDPOINT, i, DumpToString(dflt), DumpToString(value), FALSE)

\* the request of each operation
GetRequest(i) == Request("POST", GET_ENDPOINT, i, JNull, JNull, FALSE)
SetRequest(i, value) ==
    Request("PUT", SET_ENDPOINT, i, DumpToString(value), JNull, FALSE)
ClearRequest(i) == Request("PUT", CLEAR_ENDPOINT, i, JNull, JNull, FALSE)
IncRequest(i, value, dflt) ==
    Request("PUT", INCREMENT_ENDPOINT, i, DumpToString(value), DumpToString(dflt), FALSE)
ToggleRequest(i, value, dflt) ==
    Request("PUT", TOGGLE_ENDPOINT, i, DumpToString(value), DumpToString(dflt), FALSE)
\* delete_all_data sends i_want_to_do_this=True whatever its kwargs are
DeleteAllDataRequest(kwargs) ==
    Request("PUT", CLEAR_ALL_ENDPOINT, NoIdent, JNull, JNull, TRUE)
AiterCogsRequest == Request("POST", AITER_COGS_ENDPOINT, NoIdent, JNull, JNull, FALSE)

\* ------------------------------------------------------------------------
\* The remote config service
\* ------------------------------------------------------------------------
Reply(status, json, body, store) ==
    [status |-> status, json |-> json, body |-> body, store |-> store]
\* the service parses the text it gets as config_data and as default
ServerDecode(c) == IF c[1] = "str" THEN JsonLoads(c) ELSE c
ErrorBody(status) == << "error", status >>

\* what the service answers when it handles the request
ServerHandle(store, req) ==
    LET fields == JsonLoads(req.body)
        i == fields[1]
        data == ServerDecode(fields[2])
        dflt == ServerDecode(fields[3])
        have == i \in DOMAIN store
        base == IF have THEN store[i] ELSE dflt
    IN  CASE req.url = GET_ENDPOINT ->
               IF have THEN Reply(200, TRUE, store[i], store)
               ELSE Reply(404, TRUE, ErrorBody(404), store)
          [] req.url = SET_ENDPOINT ->
               Reply(200, TRUE, JObj(data), DictSet(store, i, data))
          [] req.url = CLEAR_ENDPOINT ->
               Reply(200, TRUE, JObj(JNull), DictDel(store, i))
          [] req.url = INCREMENT_ENDPOINT ->
               IF base[1] = "int" /\ data[1] = "int"
               THEN Reply(200, TRUE, JObj(JInt(base[2] + data[2])),
                          DictSet(store, i, JInt(base[2] + data[2])))
               ELSE Reply(400, TRUE, ErrorBody(400), store)
          [] req.url = TOGGLE_ENDPOINT ->
               IF data[1] = "bool"
               THEN Reply(200, TRUE, JObj(data), DictSet(store, i, data))
               ELSE IF base[1] = "bool"
               THEN Reply(200, TRUE, JObj(JBool(~base[2])),
                          DictSet(store, i, JBool(~base[2])))
               ELSE Reply(400, TRUE, ErrorBody(400), store)
          [] req.url = CLEAR_ALL_ENDPOINT ->
               IF req.param THEN Reply(200, TRUE, JObj(JNull), EmptyDict)
               ELSE Reply(400, TRUE, ErrorBody(400), store)
          [] req.url = AITER_COGS_ENDPOINT ->
               Reply(200, TRUE, << "list", DOMAIN store >>, store)

\* the service may also refuse any request (bad token, internal error): a
\* non-200 status with a JSON error body or with a body that is not JSON
ServerReplies(store, req) ==
    { ServerHandle(store, req),
      Reply(500, TRUE, ErrorBody(500), store),
      Reply(500, FALSE, ErrorBody(500), store) }

\* ------------------------------------------------------------------------
\* APIDriver: how each operation ends, given the response
\* ------------------------------------------------------------------------
Return(v) == [kind |-> "return", val |-> v]
Raise(e, v) == [kind |-> e, val |-> v]
\* str(response_output)
Str(v) == << "text", v >>
\* response_output.get("value")
GetValue(o) == IF o[1] = "obj" THEN Return(o[2]) ELSE Raise("AttributeError", JNull)

\* get (lines 119-122)
GetOutcome(r) ==
    IF r.status = 200
    THEN IF r.json THEN Return(LoadToString(r.body))
         ELSE Raise("ContentTypeError", JNull)
    ELSE Raise("KeyError", JNull)

\* lines 134-139, and the same in clear, inc, toggle and delete_all_data
ValueOrConfigError(r) ==
    IF ~r.json THEN Raise("ContentTypeError", JNull)
    ELSE IF r.status = 200 THEN GetValue(LoadToString(r.body))
    ELSE Raise("ConfigError", Str(r.body))

\* set (lines 134-139)
SetOutcome(r) == ValueOrConfigError(r)
\* clear (lines 149-154)
ClearOutcome(r) == ValueOrConfigError(r)
\* inc (lines 175-180)
IncOutcome(r) == ValueOrConfigError(r)
\* toggle (lines 198-203)
ToggleOutcome(r) == ValueOrConfigError(r)
\* delete_all_data (lines 214-219)
DeleteAllDataOutcome(r) == ValueOrConfigError(r)
\* aiter_cogs (lines 228-229): the status is not looked at
AiterCogsOutcome(r) ==
    IF ~r.json THEN Raise("ContentTypeError", JNull)
    ELSE Return(LoadToString(r.body))

Outcome(name, r) ==
    CASE name = "get" -> GetOutcome(r)
      [] name = "set" -> SetOutcome(r)
      [] name = "clear" -> ClearOutcome(r)
      [] name = "inc" -> IncOutcome(r)
      [] name = "toggle" -> ToggleOutcome(r)
      [] name = "delete_all_data" -> DeleteAllDataOutcome(r)
      [] name = "aiter_cogs" -> AiterCogsOutcome(r)

\* ------------------------------------------------------------------------
\* APIDriver: the operations (specification SpecDriver)
\* ------------------------------------------------------------------------
\* number of coroutines calling the driver
NumCallers == 2
\* number of driver operations (initialize and teardown too) invoked in one
\* behaviour
MaxDriverOps == 2

\* the identifiers and values the callers use
DIdents == {IdentifierData("GUILD", << 1 >>)}
SetValues == {JBool(TRUE), JInt(0)}
IncValues == {JInt(1), JInt(2)}
IncDefaults == {JInt(3)}
ToggleValues == {JNull, JBool(TRUE)}
ToggleDefaults == {JNull, JBool(FALSE)}
InitialStores == {EmptyDict}

\* the keys of storage_details that initialize reads (lines 73-74)
StorageKeys == {"host", "password"}
StorageDetails == SUBSET StorageKeys

\* what a caller gets of a reply of the service: status and body
Answer(r) == [status |-> r.status, json |-> r.json, body |-> r.body]
NoAnswer == [status |-> 0, json |-> FALSE, body |-> JNull]

\* a call: the operation, its arguments (identifier_data, kwargs, value and
\* default), the request it makes and the number of requests it has sent;
\* pc: where the coroutine is: "wait" (suspended in session.post/put, the
\* request is out), "answered" (about to resume at "as response"), "json"
\* (suspended in await response.json()); sess: what became of the session
\* the request went out on: "held" by the class, "dropped" by a later
\* initialize (still open), or "closed"; answer, had: the reply of the
\* service, and whether a value was stored at ident when it handled the
\* request
NewCall(op, ident, kwargs, value, dflt, req) ==
    [op |-> op, ident |-> ident, kwargs |-> kwargs, value |-> value, dflt |-> dflt,
     req |-> req, sent |-> 0, pc |-> "", sess |-> "", answer |-> NoAnswer,
     had |-> FALSE]
NoCall == NewCall("", NoIdent, FALSE, JNull, JNull, NoReq)
\* ev: "call" (a request went out: the call is in dreq) or "end" (the
\* operation returned or raised); op, ident, kwargs: the call that ended;
\* kind, val: how it ended; status: of the
\* response; had: a value was stored at ident when the service handled it;
\* value: the value argument; url, sent: where the requests of the call went
\* and how many they were
DStep(e, c, o, status, had) ==
    [ev |-> e, op |-> c.op, ident |-> c.ident, kwargs |-> c.kwargs,
     kind |-> o.kind, val |-> o.val, status |-> status, had |-> had,
     value |-> c.value, url |-> c.req.url, sent |-> c.sent]
NoOutcome == Raise("", JNull)

\* the operations in flight are a bag: the coroutines that run them have no
\* identity of their own
InFlight == BagToSet(dreq)
Launch(c) == dreq (+) SetToBag({c})
Land(c) == dreq (-) SetToBag({c})
Move(c, d) == (dreq (-) SetToBag({c})) (+) SetToBag({d})

DriverInit ==
    /\ orjson \in BOOLEAN
    /\ accepts \in BOOLEAN
    /\ session \in {"none", "open"}
    /\ leaked = 0
    /\ server \in InitialStores
    /\ dreq = EmptyBag
    /\ dlast = DStep("init", NoCall, NoOutcome, 0, FALSE)
    /\ dn = 0

\* the requests in flight on the session the class holds: it becomes s
Rehold(s) ==
    LET held(d) == [d EXCEPT !.sess = "held"]
        to(c) == IF c.sess = "held" THEN [c EXCEPT !.sess = s] ELSE c
    IN  [d \in {to(c) : c \in InFlight} |->
            (IF d \in InFlight THEN dreq[d] ELSE 0)
            + (IF d.sess = s /\ held(d) \in InFlight THEN dreq[held(d)] ELSE 0)]

\* initialize (lines 71-77): storage_details["host"] and ["password"] are
\* read first (KeyError when one is missing); then a new ClientSession
\* replaces the one held, which is not closed
Initialize(details) ==
    /\ dn < MaxDriverOps
    /\ dn' = dn + 1
    /\ IF "host" \notin details
       THEN /\ dlast' = DStep("initialize", NoCall,
                              Raise("KeyError", << "key", "host" >>), 0, FALSE)
            /\ UNCHANGED << session, leaked, dreq >>
       ELSE IF "password" \notin details
       THEN /\ dlast' = DStep("initialize", NoCall,
                              Raise("KeyError", << "key", "password" >>), 0, FALSE)
            /\ UNCHANGED << session, leaked, dreq >>
       ELSE /\ session' = "open"
            /\ leaked' = IF session = "open" THEN leaked + 1 ELSE leaked
            /\ dreq' = Rehold("dropped")
            /\ dlast' = DStep("initialize", NoCall, Return(JNull), 0, FALSE)
    /\ UNCHANGED << orjson, accepts, server >>
    /\ UNCHANGED << mvars, ivars, pvars >>

\* teardown (lines 79-81): closes the session held, if there is one
Teardown ==
    /\ dn < MaxDriverOps
    /\ dn' = dn + 1
    /\ IF session = "none"
       THEN /\ dlast' = DStep("teardown", NoCall, Raise("AttributeError", JNull), 0, FALSE)
            /\ UNCHANGED << session, dreq >>
       ELSE /\ dlast' = DStep("teardown", NoCall, Return(JNull), 0, FALSE)
            /\ session' = "closed"
            /\ dreq' = Rehold("closed")
    /\ UNCHANGED << orjson, accepts, leaked, server >>
    /\ UNCHANGED << mvars, ivars, pvars >>

\* the request of a call, out on the session held
Sent(c) == [c EXCEPT !.sent = 1, !.pc = "wait", !.sess = "held"]

\* a driver sending its request whatever the state of the session
CallAnySession(c) ==
    /\ BagCardinality(dreq) < NumCallers
    /\ dn < MaxDriverOps
    /\ dn' = dn + 1
    /\ dreq' = Launch(Sent(c))
    /\ dlast' = DStep("call", NoCall, NoOutcome, 0, FALSE)
    /\ UNCHANGED << svars, mvars, ivars, pvars >>

\* how self.__session.post(...) / .put(...) fails before anything is sent:
\* None has no post or put; a session that does not take the keywords
\* json_serialize and param refuses the call; a closed session refuses the
\* request
Refusal ==
    IF session = "none" THEN "AttributeError"
    ELSE IF ~accepts THEN "TypeError"
    ELSE IF session = "closed" THEN "RuntimeError"
    ELSE ""

\* the call of an operation up to its first await: the request goes out on
\* the session held, or the call is refused
Call(c) ==
    /\ BagCardinality(dreq) < NumCallers
    /\ dn < MaxDriverOps
    /\ dn' = dn + 1
    /\ IF Refusal = ""
       THEN /\ dreq' = Launch(Sent(c))
            /\ dlast' = DStep("call", NoCall, NoOutcome, 0, FALSE)
       ELSE /\ dlast' = DStep("end", c, Raise(Refusal, JNull), 0, FALSE)
            /\ UNCHANGED dreq
    /\ UNCHANGED << svars, mvars, ivars, pvars >>

\* get up to its response (lines 111-118)
Get(i) ==
    Call(NewCall("get", i, FALSE, JNull, JNull, GetRequest(i)))
\* set up to its response (lines 124-133)
Set(i, value) ==
    Call(NewCall("set", i, FALSE, value, JNull, SetRequest(i, value)))
\* clear up to its response (lines 141-148)
Clear(i) ==
    Call(NewCall("clear", i, FALSE, JNull, JNull, ClearRequest(i)))
\* inc done by the driver itself: it reads the stored value, adds and sends
\* the sum as a set
IncReadModifyWrite(i, value, dflt) ==
    LET base == IF i \in DOMAIN server THEN server[i] ELSE dflt
    IN  IF base[1] = "int"
        THEN Call(NewCall("inc", i, FALSE, value, dflt,
                          SetRequest(i, JInt(base[2] + value[2]))))
        ELSE Call(NewCall("inc", i, FALSE, value, dflt, IncRequest(i, value, dflt)))

\* inc up to its response (lines 156-174)
Inc(i, value, dflt) ==
    Call(NewCall("inc", i, FALSE, value, dflt, IncRequest(i, value, dflt)))
\* toggle up to its response (lines 182-197)
Toggle(i, value, dflt) ==
    Call(NewCall("toggle", i, FALSE, value, dflt, ToggleRequest(i, value, dflt)))
\* delete_all_data up to its response (lines 205-213); kwargs: the caller
\* passed a confirmation
DeleteAllData(kwargs) ==
    Call(NewCall("delete_all_data", NoIdent, kwargs, JNull, JNull,
                 DeleteAllDataRequest(kwargs)))
\* aiter_cogs up to its response (lines 221-227)
AiterCogs ==
    Call(NewCall("aiter_cogs", NoIdent, FALSE, JNull, JNull, AiterCogsRequest))

\* the operation c is over
EndCall(c, o) ==
    /\ dlast' = DStep("end", c, o, c.answer.status, c.had)
    /\ dreq' = Land(c)

\* the request c as the service has answered it with r, handling it in store
Served(c, store, r) ==
    [c EXCEPT !.pc = "answered", !.answer = Answer(r),
              !.had = c.ident \in DOMAIN store]

\* the service handles the request of an operation and answers; the
\* coroutine is still suspended
Serve(c) ==
    /\ c \in InFlight
    /\ c.pc = "wait"
    /\ c.sess # "closed"
    /\ \E r \in ServerReplies(server, c.req) :
          /\ server' = r.store
          /\ dreq' = Move(c, Served(c, server, r))
    /\ UNCHANGED << orjson, accepts, session, leaked, dlast, dn >>
    /\ UNCHANGED << mvars, ivars, pvars >>

\* the coroutine resumes at "as response" with the status, which it has
\* even if the session was closed since: get with a status other than 200
\* raises at once (line 122), everything else goes on to await
\* response.json()
Enter(c) ==
    /\ c \in InFlight
    /\ c.pc = "answered"
    /\ IF c.op = "get" /\ c.answer.status # 200
       THEN EndCall(c, GetOutcome(c.answer))
       ELSE /\ dreq' = Move(c, [c EXCEPT !.pc = "json"])
            /\ UNCHANGED dlast
    /\ UNCHANGED << svars, dn >>
    /\ UNCHANGED << mvars, ivars, pvars >>

\* an operation sending its request once more after a response that is not
\* a success
RespondRetrying(c) ==
    /\ c \in InFlight
    /\ c.pc = "json"
    /\ IF c.answer.status # 200 /\ c.sent < 2
       THEN LET again == [c EXCEPT !.sent = @ + 1, !.pc = "wait",
                                   !.answer = NoAnswer, !.had = FALSE]
            IN  /\ dreq' = Move(c, again)
                /\ dlast' = DStep("call", NoCall, NoOutcome, 0, FALSE)
       ELSE EndCall(c, Outcome(c.op, c.answer))
    /\ UNCHANGED << svars, dn >>
    /\ UNCHANGED << mvars, ivars, pvars >>

\* the coroutine resumes from await response.json() and the operation ends
\* (the code after it: lines 120, 135-139 and the like)
Respond(c) ==
    /\ c \in InFlight
    /\ c.pc = "json"
    /\ EndCall(c, Outcome(c.op, c.answer))
    /\ UNCHANGED << svars, dn >>
    /\ UNCHANGED << mvars, ivars, pvars >>

\* the session a request went out on was closed under it: the service may
\* or may not have handled it, the operation ends with a connection error
Disconnect(c) ==
    /\ c \in InFlight
    /\ c.sess = "closed"
    /\ server' \in IF c.pc = "wait"
                   THEN {server, ServerHandle(server, c.req).store}
                   ELSE {server}
    /\ dlast' = DStep("end", c, Raise("ClientConnectionError", JNull), 0, c.had)
    /\ dreq' = Land(c)
    /\ UNCHANGED << orjson, accepts, session, leaked, dn >>
    /\ UNCHANGED << mvars, ivars, pvars >>

\* ------------------------------------------------------------------------
\* import_data (specification SpecImport)
\* ------------------------------------------------------------------------
\* the payload of a category: a nested dict, one level for each segment of the
\* primary key, kept as the sequence of its (key, value) items; width: the
\* number of keys at the top level (the dict under key k has k keys)
RECURSIVE Payload(_, _, _, _)
Payload(category, levels, pkey, width) ==
    IF levels = 0 THEN << "leaf", category, pkey >>
    ELSE [k \in 1..width |->
            << k, Payload(category, levels - 1, Append(pkey, k), k) >>]
PayloadsOf(category) ==
    IF PkeyLen(category) = 0 THEN {Payload(category, 0, << >>, 0)}
    ELSE {Payload(category, PkeyLen(category), << >>, w) : w \in 0..MaxKeys}
Entries == UNION {{<< c, p >> : p \in PayloadsOf(c)} : c \in Categories}
\* the arguments of import_data: every category at most once
CogDatas ==
    {cd \in UNION {[1..n -> Entries] : n \in 0..Cardinality(Categories)} :
        \A a, b \in DOMAIN cd : a # b => cd[a][1] # cd[b][1]}

\* BaseDriver._split_primary_key: the payload split into its leaf rows
\* (primary key, data), the primary key having the arity of the category
RECURSIVE Flatten(_, _, _)
Flatten(levels, items, parent) ==
    IF items = << >> THEN << >>
    ELSE LET new_key == Append(parent, items[1][1])
             v == items[1][2]
         IN  (IF levels > 1 THEN Flatten(levels - 1, v, new_key)
              ELSE << << new_key, v >> >>)
             \o Flatten(levels, Tail(items), parent)
SplitPrimaryKey(category, all_data) ==
    IF PkeyLen(category) = 0 THEN << << << >>, all_data >> >>
    ELSE Flatten(PkeyLen(category), all_data, << >>)

\* the leaf rows of the k-th category of the input (line 249)
Rows(k) == SplitPrimaryKey(cog_data[k][1], cog_data[k][2])
LogEntry(ident, phase, o) ==
    [cat |-> ident[1], pkey |-> ident[2], phase |-> phase, ok |-> o.kind = "return"]

ImportInit ==
    /\ orjson \in BOOLEAN
    /\ accepts \in BOOLEAN
    /\ session = "open"
    /\ leaked = 0
    /\ server = EmptyDict
    /\ cog_data \in CogDatas
    /\ ipc = "start"
    /\ icat = 0
    /\ ileaf = 0
    /\ ilog = << >>

\* where import_data is: at the bulk set of category cat, at the set of the
\* leaf-th row of category cat, or returned
At(p, cat, leaf) == [pc |-> p, cat |-> cat, leaf |-> leaf]
\* the for loop of import_data moves on (line 233)
NextCategory(cat) ==
    IF cat < Len(cog_data) THEN At("bulk", cat + 1, 0) ELSE At("returned", cat, 0)
\* after the bulk set of a category (lines 243-246): _individual_migrate if
\* it raised, and there the first row if there is one (line 250)
AfterBulk(cat, ok) ==
    IF ~ok /\ Rows(cat) # << >> THEN At("leaf", cat, 1) ELSE NextCategory(cat)
\* after the set of a leaf row, raised or not (lines 250, 259-262)
AfterLeaf(cat, leaf) ==
    IF leaf < Len(Rows(cat)) THEN At("leaf", cat, leaf + 1) ELSE NextCategory(cat)
\* the identifier and the value of the set made at a place (lines 235-242,
\* 251-258)
IdentAt(at) ==
    IF at.pc = "bulk" THEN IdentifierData(cog_data[at.cat][1], << >>)
    ELSE IdentifierData(cog_data[at.cat][1], Rows(at.cat)[at.leaf][1])
ValueAt(at) ==
    IF at.pc = "bulk" THEN cog_data[at.cat][2] ELSE Rows(at.cat)[at.leaf][2]
\* the call of set made at a place, its request out
ImportSet(at) ==
    Sent(NewCall("set", IdentAt(at), FALSE, ValueAt(at), JNull,
                 SetRequest(IdentAt(at), ValueAt(at))))
\* the set in flight is the one import_data made
Mine(c) == c \in InFlight /\ c.op = "set"
\* every set from a place on is refused by the session, no coroutine gets to
\* run in between: each one is caught (lines 245, 261) and the loops go on to
\* the end
RECURSIVE RefusedFrom(_, _)
RefusedFrom(at, log) ==
    IF at.pc = "returned" THEN log
    ELSE RefusedFrom(IF at.pc = "bulk" THEN AfterBulk(at.cat, FALSE)
                     ELSE AfterLeaf(at.cat, at.leaf),
                     Append(log, LogEntry(IdentAt(at), at.pc,
                                          Raise(Refusal, JNull))))
\* import_data runs on from a place to its next suspension: in the set made
\* there, or none if it returns; others: the other operations in flight
RunTo(at, log, others) ==
    IF at.pc # "returned" /\ Refusal = ""
    THEN /\ ipc' = at.pc /\ icat' = at.cat /\ ileaf' = at.leaf
         /\ ilog' = log
         /\ dreq' = others (+) SetToBag({ImportSet(at)})
    ELSE /\ ipc' = "returned" /\ icat' = Len(cog_data) /\ ileaf' = 0
         /\ ilog' = RefusedFrom(at, log)
         /\ dreq' = others

\* import_data is called and runs to its first suspension (lines 231-244)
ImportData ==
    /\ ipc = "start"
    /\ RunTo(NextCategory(0), ilog, dreq)
    /\ UNCHANGED << cog_data, svars, dlast, dn, mvars, pvars >>

\* import_data always falling back to _individual_migrate
ImportBulkThenLeaves(c) ==
    /\ ipc = "bulk"
    /\ Mine(c)
    /\ c.pc = "json"
    /\ RunTo(AfterBulk(icat, FALSE),
             Append(ilog, LogEntry(c.ident, "bulk", SetOutcome(c.answer))), Land(c))
    /\ UNCHANGED << cog_data, svars, dlast, dn, mvars, pvars >>

\* the bulk set of a category is over (lines 134-139) and import_data runs
\* on (lines 243-246, 233): to _individual_migrate if it raised, else to the
\* next category
ImportBulk(c) ==
    /\ ipc = "bulk"
    /\ Mine(c)
    /\ c.pc = "json"
    /\ RunTo(AfterBulk(icat, SetOutcome(c.answer).kind = "return"),
             Append(ilog, LogEntry(c.ident, "bulk", SetOutcome(c.answer))), Land(c))
    /\ UNCHANGED << cog_data, svars, dlast, dn, mvars, pvars >>

\* _individual_migrate letting the exception of a leaf set out
ImportLeafPropagates(c) ==
    /\ ipc = "leaf"
    /\ Mine(c)
    /\ c.pc = "json"
    /\ IF SetOutcome(c.answer).kind # "return"
       THEN /\ ipc' = "raised"
            /\ ilog' = Append(ilog, LogEntry(c.ident, "leaf", SetOutcome(c.answer)))
            /\ dreq' = Land(c)
            /\ UNCHANGED << icat, ileaf >>
       ELSE RunTo(AfterLeaf(icat, ileaf),
                  Append(ilog, LogEntry(c.ident, "leaf", SetOutcome(c.answer))),
                  Land(c))
    /\ UNCHANGED << cog_data, svars, dlast, dn, mvars, pvars >>

\* _individual_migrate leaving its loop at the first leaf set that raises
ImportLeafBreaks(c) ==
    /\ ipc = "leaf"
    /\ Mine(c)
    /\ c.pc = "json"
    /\ RunTo(IF SetOutcome(c.answer).kind = "return" THEN AfterLeaf(icat, ileaf)
             ELSE NextCategory(icat),
             Append(ilog, LogEntry(c.ident, "leaf", SetOutcome(c.answer))), Land(c))
    /\ UNCHANGED << cog_data, svars, dlast, dn, mvars, pvars >>

\* the set of a leaf row is over (lines 134-139) and _individual_migrate
\* runs on (lines 259-262, 250): an exception is logged and the loop goes on
ImportLeaf(c) ==
    /\ ipc = "leaf"
    /\ Mine(c)
    /\ c.pc = "json"
    /\ RunTo(AfterLeaf(icat, ileaf),
             Append(ilog, LogEntry(c.ident, "leaf", SetOutcome(c.answer))), Land(c))
    /\ UNCHANGED << cog_data, svars, dlast, dn, mvars, pvars >>

\* the identifiers another coroutine clears meanwhile: one that a bulk set
\* writes, one that a leaf set writes
ClearIdents == {IdentifierData("GLOBAL", << >>), IdentifierData("GUILD", << 1 >>)}
\* another coroutine clears a stored identifier while import_data is
\* suspended: the service handles its request (dn counts these)
OtherClear(i) ==
    /\ ipc \in {"bulk", "leaf"}
    /\ i \in DOMAIN server
    /\ dn < MaxDriverOps
    /\ dn' = dn + 1
    /\ server' = ServerHandle(server, ClearRequest(i)).store
    /\ UNCHANGED << orjson, accepts, session, leaked, dreq, dlast >>
    /\ UNCHANGED << mvars, ivars, pvars >>

\* ------------------------------------------------------------------------
\* The specifications
\* ------------------------------------------------------------------------
\* the part of the state a specification does not use stays as it is here
ManagerParked ==
    /\ enable_cache = TRUE
    /\ cached_global = EmptyDict
    /\ config_store = EmptyDict
    /\ config_default = FALSE
    /\ pc = [t \in Tasks |-> "idle"]
    /\ arg = [t \in Tasks |-> None]
    /\ resp = [t \in Tasks |-> NoResp]
    /\ reads = [t \in Tasks |-> 0]
    /\ inv = [t \in Tasks |-> NoCtx]
    /\ last = Plain("init")
    /\ nops = 0
ServiceParked ==
    /\ orjson = FALSE
    /\ accepts = TRUE
    /\ session = "none"
    /\ leaked = 0
    /\ server = EmptyDict
CallersParked ==
    /\ dreq = EmptyBag
    /\ dlast = DStep("init", NoCall, NoOutcome, 0, FALSE)
    /\ dn = 0
ImportParked ==
    /\ cog_data = << >>
    /\ ipc = "start"
    /\ icat = 0
    /\ ileaf = 0
    /\ ilog = << >>
SequentialParked ==
    /\ managers = [e \in BOOLEAN |-> Manager(e, EmptyDict)]
    /\ sdefault = FALSE
    /\ stask = [e \in BOOLEAN |-> [t \in Tasks |-> [op |-> "", k |-> NoCoroutine]]]
    /\ sret = [e \in BOOLEAN |-> NoCallYet]
    /\ sn = 0
    /\ sseq = TRUE

\* the cache manager
Init == ManagerInit /\ ServiceParked /\ CallersParked /\ ImportParked
           /\ SequentialParked

Next ==
    \/ \E t \in Tasks : GetGlobal(t)
    \/ \E t \in Tasks : GetGlobalResume(t)
    \/ \E t \in Tasks : \E set_to \in OptionalBool : SetGlobal(t, set_to)
    \/ \E t \in Tasks : SetGlobalResume(t)
    \/ ResetGlobals
    \/ \E t \in Tasks : ConfigServe(t)
    \/ \E t \in Tasks : ConfigFail(t)
    \/ \E t \in Tasks : Cancel(t)

Spec == Init /\ [][Next]_vars


\* the driver and the remote service
DriverSpecInit == DriverInit /\ ManagerParked /\ ImportParked /\ SequentialParked

DriverNext ==
    \/ \E details \in StorageDetails : Initialize(details)
    \/ Teardown
    \/ \E i \in DIdents : Get(i)
    \/ \E i \in DIdents : \E v \in SetValues : Set(i, v)
    \/ \E i \in DIdents : Clear(i)
    \/ \E i \in DIdents : \E v \in IncValues : \E d \in IncDefaults : Inc(i, v, d)
    \/ \E i \in DIdents :
          \E v \in ToggleValues : \E d \in ToggleDefaults : Toggle(i, v, d)
    \/ \E kwargs \in BOOLEAN : DeleteAllData(kwargs)
    \/ AiterCogs
    \/ \E c \in InFlight : Serve(c)
    \/ \E c \in InFlight : Enter(c)
    \/ \E c \in InFlight : Respond(c)
    \/ \E c \in InFlight : Disconnect(c)

SpecDriver == DriverSpecInit /\ [][DriverNext]_vars

\* import_data into an empty service, the driver initialized
ImportSpecInit == ImportInit /\ ManagerParked /\ CallersParked /\ SequentialParked

ImportNext ==
    \/ ImportData
    \/ \E c \in InFlight : Serve(c)
    \/ \E c \in InFlight : Enter(c)
    \/ \E c \in InFlight : ImportBulk(c)
    \/ \E c \in InFlight : ImportLeaf(c)
    \/ \E i \in ClearIdents : OtherClear(i)

SpecImport == ImportSpecInit /\ [][ImportNext]_vars

\* a caching and a non-caching manager given the same calls
SequentialSpecInit ==
    SequentialInit /\ ManagerParked /\ ServiceParked /\ CallersParked /\ ImportParked

SequentialNext ==
    \/ \E t \in Tasks : BothGetGlobal(t)
    \/ \E t \in Tasks : \E set_to \in OptionalBool : BothSetGlobal(t, set_to)
    \/ \E t \in Tasks : \E guild \in Guilds : BothGetContextValue(t, guild)
    \/ BothResetGlobals
    \/ \E t \in Tasks : BothConfig(t)
    \/ \E t \in Tasks : BothResume(t)
    \/ \E t \in Tasks : \E how \in {"raise", "cancelled"} : BothRaise(t, how)

SpecSequential == SequentialSpecInit /\ [][SequentialNext]_vars

\* ------------------------------------------------------------------------
\* Properties of the cache manager (under Spec)
\* ------------------------------------------------------------------------
GetPcs == {"get_call", "get_resp"}
GetEnds == {"get_return", "get_raise", "get_cancelled"}
Cached == NoneKey \in DOMAIN cached_global

\* C1: with caching enabled, a get_global invoked right after the completion
\* of set_global(x), x a real value, does not go to the backend (it never
\* suspends on a backend read, and it made no backend read when it ends) and
\* returns x.
C1_GetAfterSetHitsCache ==
    enable_cache =>
        /\ \A t \in Tasks : pc[t] \in GetPcs => inv[t].ev # "set_done"
        /\ (last.ev \in GetEnds /\ last.after.ev = "set_done") =>
               /\ last.ev = "get_return"
               /\ last.val = last.after.val
               /\ last.n = 0

C1_Witness ==
    /\ enable_cache
    /\ last.ev = "get_return"
    /\ last.after.ev = "set_done"
    /\ last.val = TRUE
    /\ last.n = 0

\* C2: right after reset_globals there is no cache entry, so the next
\* get_global reads through: when it returns it has made exactly one backend
\* read, the cache holds the value it returns, and, no other operation having
\* been in flight meanwhile, that value is the backend's value.
C2_GetAfterResetReadsOnce ==
    /\ last.ev = "reset" => ~Cached
    /\ \A t \in Tasks : (pc[t] = "get_resp" /\ inv[t].ev = "reset") => reads[t] = 1
    /\ (last.ev = "get_return" /\ last.after.ev = "reset") =>
           /\ last.n = 1
           /\ Cached /\ cached_global[NoneKey] = last.val
           /\ last.after.solo => last.val = ConfigRead(config_store, config_default)

C2_Witness ==
    /\ enable_cache
    /\ last.ev = "get_return"
    /\ last.after.ev = "reset"
    /\ last.after.solo
    /\ last.n = 1

\* C3: when set_global(None) completes the cache entry is the declared
\* default; if no other operation was in flight meanwhile the backend value is
\* cleared and a read-through would return the cached value; a get_global
\* invoked next returns the default (from the cache when caching is enabled,
\* from the cleared backend when both ran with no other operation in flight).
C3_SetNoneCachesDefault ==
    /\ last.ev = "clear_done" =>
           /\ Cached /\ cached_global[NoneKey] = config_default
           /\ last.after.solo =>
                  /\ AutoupdateKey \notin DOMAIN config_store
                  /\ ConfigRead(config_store, config_default) = cached_global[NoneKey]
    /\ (last.ev = "get_return" /\ last.after.ev = "clear_done"
          /\ (enable_cache \/ (last.after.seq /\ last.after.solo))) =>
           last.val = config_default

C3_Witness ==
    /\ last.ev = "get_return"
    /\ last.after.ev = "clear_done"
    /\ last.after.seq
    /\ last.after.solo
    /\ last.val = config_default

\* C4: the cache dictionary changes only in the step that follows a backend
\* call that succeeded (the resumption of get_global or set_global) or in
\* reset_globals: invoking an operation, the backend serving or failing a
\* call, a resumption that raises and a cancellation leave it as it was.
C4_NoPartialMutation ==
    [][ /\ cached_global' # cached_global =>
              last'.ev \in {"get_return", "set_done", "clear_done", "reset"}
        /\ last'.ev \in {"get_raise", "set_raise", "get_cancelled", "set_cancelled",
                          "backend_error", "get_call", "set_call", "clear_call"} =>
              cached_global' = cached_global
      ]_vars

C4_Witness ==
    /\ last.ev \in {"set_raise", "set_cancelled"}
    /\ Cached
    /\ cached_global[NoneKey] # ConfigRead(config_store, config_default)

\* ------------------------------------------------------------------------
\* Properties of the driver operations (under SpecDriver)
\* ------------------------------------------------------------------------
\* C5: the clear-all request of delete_all_data goes out only when the caller
\* passed the confirmation; without it the call is rejected before any
\* request.
C5_WipeNeedsConfirmation ==
    \A c \in InFlight : c.op = "delete_all_data" => c.kwargs

\* C9: every operation that got a response with a status other than 200 ends
\* with ConfigError carrying the body of the response.
C9_Non200IsConfigError ==
    (dlast.ev = "end" /\ dlast.status \notin {0, 200}) =>
        /\ dlast.kind = "ConfigError"
        /\ dlast.val = Str(ErrorBody(dlast.status))

\* C10: a get that got a response ends with KeyError (the NotFoundError of the
\* contract) exactly when no value was stored at its identifier; a clear of an
\* identifier that holds no value, which the service accepted, returns.
C10_GetNotFoundIffMissing ==
    /\ (dlast.ev = "end" /\ dlast.op = "get" /\ dlast.status # 0) =>
           (dlast.kind = "KeyError" <=> ~dlast.had)
    /\ (dlast.ev = "end" /\ dlast.op = "clear" /\ dlast.status = 200 /\ ~dlast.had) =>
           dlast.kind = "return"

\* ------------------------------------------------------------------------
\* Properties of import_data (under SpecImport)
\* ------------------------------------------------------------------------
BulkEntry(c, ok) == [cat |-> c, pkey |-> << >>, phase |-> "bulk", ok |-> ok]
LeafEntry(c, pkey, ok) == [cat |-> c, pkey |-> pkey, phase |-> "leaf", ok |-> ok]
Logged(e) == \E j \in DOMAIN ilog : ilog[j] = e
Stored(i, v) == i \in DOMAIN server /\ server[i] = v

\* import_data is suspended in the set of the place where it is, on the
\* open session: the service can answer it, or it can resume
ImportSuspended ==
    \E c \in InFlight :
       /\ Mine(c)
       /\ c.ident = IdentAt(At(ipc, icat, ileaf))
       /\ c.pc \in {"wait", "answered", "json"}
       /\ c.sess = "held"

\* C6: import_data never ends with an exception and never stops half way:
\* until it returns it is suspended in a set that the service can answer and
\* that resumes, and when it returns every category of the input had its
\* bulk set and every leaf row of every category whose bulk set failed had
\* its own set, whatever failed before.
C6_ImportNeverRaises ==
    /\ ipc \in {"start", "bulk", "leaf", "returned"}
    /\ ipc \in {"bulk", "leaf"} => ImportSuspended
    /\ ipc = "returned" =>
          /\ dreq = EmptyBag
          /\ \A k \in DOMAIN cog_data :
                LET c == cog_data[k][1]
                IN  /\ Logged(BulkEntry(c, TRUE)) \/ Logged(BulkEntry(c, FALSE))
                    /\ Logged(BulkEntry(c, FALSE)) =>
                          \A n \in DOMAIN Rows(k) :
                             \/ Logged(LeafEntry(c, Rows(k)[n][1], TRUE))
                             \/ Logged(LeafEntry(c, Rows(k)[n][1], FALSE))

C6_Witness ==
    /\ ipc = "returned"
    /\ Len(cog_data) >= 2
    /\ \E i, j \in DOMAIN ilog :
          /\ i < j
          /\ ilog[i].cat = cog_data[1][1] /\ ilog[i].phase = "leaf" /\ ~ilog[i].ok
          /\ ilog[j].cat = cog_data[1][1] /\ ilog[j].phase = "leaf" /\ ilog[j].ok
    /\ Logged(BulkEntry(cog_data[2][1], FALSE))

\* C7: when import_data has returned, and no other coroutine has cleared
\* anything meanwhile, a category whose bulk set succeeded is stored in full
\* at the identifier of the category; of a category whose bulk set failed, a
\* leaf row is stored at its own identifier exactly when its own set did not
\* fail.
C7_ImportCompleteness ==
    (ipc = "returned" /\ dn = 0) =>
       \A k \in DOMAIN cog_data :
          LET c == cog_data[k][1]
          IN  IF Logged(BulkEntry(c, TRUE))
              THEN Stored(IdentifierData(c, << >>), cog_data[k][2])
              ELSE \A n \in DOMAIN Rows(k) :
                      Stored(IdentifierData(c, Rows(k)[n][1]), Rows(k)[n][2])
                         <=> ~Logged(LeafEntry(c, Rows(k)[n][1], FALSE))

C7_Witness ==
    /\ ipc = "returned"
    /\ dn = 0
    /\ \E k \in DOMAIN cog_data :
          /\ PkeyLen(cog_data[k][1]) = 2
          /\ Logged(BulkEntry(cog_data[k][1], FALSE))
          /\ \E n, m \in DOMAIN Rows(k) :
                /\ n < m
                /\ Logged(LeafEntry(cog_data[k][1], Rows(k)[n][1], FALSE))
                /\ Stored(IdentifierData(cog_data[k][1], Rows(k)[m][1]), Rows(k)[m][2])
    /\ \E k \in DOMAIN cog_data :
          /\ Logged(BulkEntry(cog_data[k][1], TRUE))
          /\ Stored(IdentifierData(cog_data[k][1], << >>), cog_data[k][2])

\* C8: of the set calls import_data makes, each category gets one bulk set,
\* with the empty primary key, and it comes first; the set of a leaf row is
\* made only after the bulk set of its category failed; a category whose bulk
\* set succeeded gets no other set; on return every category had its bulk set.
C8_ImportOrdering ==
    /\ \A j \in DOMAIN ilog :
          /\ ilog[j].phase = "bulk" =>
                /\ ilog[j].pkey = << >>
                /\ \A i \in DOMAIN ilog : i < j => ilog[i].cat # ilog[j].cat
                /\ ilog[j].ok =>
                      \A i \in DOMAIN ilog : i > j => ilog[i].cat # ilog[j].cat
          /\ ilog[j].phase = "leaf" =>
                \E i \in DOMAIN ilog :
                   i < j /\ ilog[i] = BulkEntry(ilog[j].cat, FALSE)
    /\ ipc = "returned" =>
          \A k \in DOMAIN cog_data :
             \E j \in DOMAIN ilog : ilog[j].cat = cog_data[k][1] /\ ilog[j].phase = "bulk"

C8_Witness ==
    /\ ipc = "returned"
    /\ Len(ilog) >= 4
    /\ ilog[1].phase = "bulk" /\ ilog[1].ok
    /\ ilog[2].phase = "bulk" /\ ~ilog[2].ok
    /\ ilog[3].phase = "leaf" /\ ilog[4].phase = "leaf"

\* ------------------------------------------------------------------------
\* Properties of the life cycle of the driver (under SpecDriver)
\* ------------------------------------------------------------------------
\* the step in which the service answers the request c: it becomes d
ServedStep(c, d) ==
    /\ c.pc = "wait"
    /\ d.pc = "answered"
    /\ dreq' = Move(c, d)
\* the step in which the operation c ends, having had a response
EndedStep(c) ==
    /\ c.pc \in {"answered", "json"}
    /\ dreq' = Land(c)
    /\ dlast'.ev = "end"
    /\ dlast'.status # 0

\* C11: a request goes out only between initialize and teardown: an
\* operation gets a request in flight only in a step taken with the session
\* open, and an operation invoked with no session (before initialize) or with
\* a closed one (after teardown) ends at once with an exception, having sent
\* nothing and left the service as it was.
C11_LifecycleWindow ==
    [][ /\ BagCardinality(dreq') > BagCardinality(dreq) => session = "open"
        /\ (session # "open" /\ dn' # dn /\ dlast'.ev = "end") =>
              /\ dreq' = dreq /\ server' = server
              /\ dlast'.sent = 0
              /\ dlast'.kind \in IF session = "none" THEN {"AttributeError"}
                                 ELSE {"TypeError", "RuntimeError"}
      ]_vars

C11_Witness ==
    /\ session = "closed"
    /\ dlast.ev = "end"
    /\ dlast.op = "set"
    /\ dlast.kind = "RuntimeError"
    /\ dlast.sent = 0

\* C12: the process never has more than one open client session, and every
\* open session the driver created is the one it holds.
C12_SingleSession ==
    /\ leaked + (IF session = "open" THEN 1 ELSE 0) <= 1
    /\ leaked = 0

\* ------------------------------------------------------------------------
\* Properties of inc, set / get and toggle (under SpecDriver)
\* ------------------------------------------------------------------------
\* C13: no increment is lost: whenever the service answers an
\* inc(i, d, default=k) with 200, whatever other calls are in flight or were
\* served since it was sent, the value stored at i becomes the value stored
\* just before (k if there was none) plus d, and the inc that got this answer
\* returns that value; so N concurrent inc calls leave k plus the sum of their
\* deltas.
C13_IncrementsNotLost ==
    [][ \A c \in InFlight :
          /\ \A d \in BagToSet(dreq') :
                (c.op = "inc" /\ ServedStep(c, d) /\ d.answer.status = 200) =>
                   LET i == c.ident
                       base == IF i \in DOMAIN server THEN server[i] ELSE c.dflt
                   IN  /\ base[1] = "int"
                       /\ i \in DOMAIN server'
                       /\ server'[i] = JInt(base[2] + c.value[2])
                       /\ d.answer.body = JObj(server'[i])
          /\ (c.op = "inc" /\ EndedStep(c) /\ dlast'.status = 200) =>
                /\ dlast'.kind = "return"
                /\ c.answer.body = JObj(dlast'.val)
      ]_vars

\* two inc calls in flight together on an absent identifier, the second one
\* served first and returned
C13_Witness ==
    /\ dn = 2
    /\ \E c \in InFlight : c.pc = "wait" /\ c.op = "inc" /\ c.value = JInt(1)
    /\ dlast.ev = "end" /\ dlast.op = "inc" /\ dlast.status = 200
    /\ ~dlast.had
    /\ dlast.val = JInt(5)
    /\ Stored(dlast.ident, JInt(5))

\* C14: round trip: when the service answers a set(i, v) with 200, v itself
\* is stored at i, and the set returns v; when it answers a get(i) with 200,
\* the get returns the value stored at i at that moment as it is, neither its
\* JSON text nor an object around it; so a get that follows the set, with
\* nothing served in between, returns v.
C14_RoundTrip ==
    [][ \A c \in InFlight :
          /\ \A d \in BagToSet(dreq') :
                /\ (c.op = "set" /\ ServedStep(c, d) /\ d.answer.status = 200) =>
                      Stored(c.ident, c.value)'
                /\ (c.op = "get" /\ ServedStep(c, d) /\ d.answer.status = 200) =>
                      /\ Stored(c.ident, d.answer.body)
                      /\ server' = server
          /\ (c.op = "set" /\ EndedStep(c) /\ dlast'.status = 200) =>
                /\ dlast'.kind = "return"
                /\ dlast'.val = c.value
          /\ (c.op = "get" /\ EndedStep(c) /\ dlast'.status = 200) =>
                /\ dlast'.kind = "return"
                /\ dlast'.val = c.answer.body
                /\ dlast'.val[1] \notin {"str", "bytes", "obj"}
      ]_vars

\* a get returns the value only a set can have stored
C14_Witness ==
    /\ dlast.ev = "end" /\ dlast.op = "get" /\ dlast.status = 200
    /\ dlast.kind = "return"
    /\ dlast.val = JInt(0)
    /\ orjson

\* ------------------------------------------------------------------------
\* Requests per operation (under SpecDriver)
\* ------------------------------------------------------------------------
EndpointOf(name) ==
    CASE name = "get" -> GET_ENDPOINT
      [] name = "set" -> SET_ENDPOINT
      [] name = "clear" -> CLEAR_ENDPOINT
      [] name = "inc" -> INCREMENT_ENDPOINT
      [] name = "toggle" -> TOGGLE_ENDPOINT
      [] name = "delete_all_data" -> CLEAR_ALL_ENDPOINT
      [] name = "aiter_cogs" -> AITER_COGS_ENDPOINT

\* C15: an operation in flight has sent exactly one request, to the endpoint
\* of the operation; an operation that ended after a response, a success or a
\* failure, has sent exactly that one request; none sends more than one.
C15_OneRequestPerOperation ==
    /\ \A c \in InFlight :
          /\ c.sent = 1
          /\ c.req.url = EndpointOf(c.op)
    /\ dlast.ev = "end" =>
          /\ dlast.sent <= 1
          /\ dlast.status # 0 =>
                /\ dlast.sent = 1
                /\ dlast.url = EndpointOf(dlast.op)

\* an operation that ended with the failure of its one request
C15_Witness ==
    /\ dlast.ev = "end" /\ dlast.op = "inc"
    /\ dlast.status = 500 /\ dlast.kind = "ConfigError"
    /\ dlast.sent = 1
    /\ server = EmptyDict

\* ------------------------------------------------------------------------
\* Caching disabled, and coherence of the cache (under Spec)
\* ------------------------------------------------------------------------
\* C16: a manager constructed with enable_cache=False never writes the cache
\* dictionary, which stays empty, and each of its get_global calls that returns
\* has made one backend read.
C16_DisabledBypassesCache ==
    ~enable_cache =>
        /\ cached_global = EmptyDict
        /\ last.ev = "get_return" => last.n = 1

\* C20: with caching enabled, when an operation has completed and none is in
\* flight, a cache entry that is present equals the backend's effective value
\* (the stored value, or the declared default when none is stored).
C20_CacheCoherent ==
    (/\ enable_cache
     /\ \A t \in Tasks : pc[t] = "idle"
     /\ last.ev \in {"get_return", "set_done", "clear_done", "reset"}
     /\ Cached) =>
        cached_global[NoneKey] = ConfigRead(config_store, config_default)

\* ------------------------------------------------------------------------
\* Toggle (under SpecDriver)
\* ------------------------------------------------------------------------
\* C18: when the service answers a toggle(i, value=None, default=k) with
\* 200, it stores the negation of the boolean stored at i just before, or of
\* k when none was stored, and the toggle returns it: with default False on
\* an absent identifier it returns true, the next toggle returns false, and
\* two toggles in a row give back the stored boolean they started from.
C18_ToggleFlips ==
    [][ \A c \in InFlight :
          /\ \A d \in BagToSet(dreq') :
                (c.op = "toggle" /\ c.value = JNull /\ ServedStep(c, d)
                   /\ d.answer.status = 200) =>
                   LET i == c.ident
                       base == IF i \in DOMAIN server THEN server[i] ELSE c.dflt
                   IN  /\ base[1] = "bool"
                       /\ i \in DOMAIN server'
                       /\ server'[i] = JBool(~base[2])
                       /\ d.answer.body = JObj(server'[i])
          /\ (c.op = "toggle" /\ EndedStep(c) /\ dlast'.status = 200) =>
                /\ dlast'.kind = "return"
                /\ c.answer.body = JObj(dlast'.val)
      ]_vars

\* the second of two toggles returns false
C18_Witness ==
    /\ dn = 2
    /\ dreq = EmptyBag
    /\ dlast.ev = "end" /\ dlast.op = "toggle" /\ dlast.value = JNull
    /\ dlast.status = 200 /\ dlast.had
    /\ dlast.val = JBool(FALSE)
    /\ Stored(dlast.ident, JBool(FALSE))

\* ------------------------------------------------------------------------
\* Caching enabled and disabled (under SpecSequential)
\* ------------------------------------------------------------------------
AllFree == \A t \in Tasks : Free(t)

\* C17: given the same calls from the same initial backend, one call at a
\* time and each one returning, the backends of the caching and of the
\* non-caching manager are in the same state and, once the call made is over
\* on both, it has returned the same value on both (so every get_global has).
C17_EnabledDisabledAgree ==
    sseq =>
       /\ managers[TRUE].store = managers[FALSE].store
       /\ AllFree =>
             /\ sret[TRUE].op = sret[FALSE].op
             /\ sret[TRUE].how = sret[FALSE].how
             /\ sret[TRUE].ret = sret[FALSE].ret

\* a get_global after a write that changed the value: the caching manager
\* answers from its cache, the other one from the backend
C17_Witness ==
    /\ sseq /\ AllFree
    /\ sn >= 2
    /\ sret[TRUE].op = "get_global"
    /\ sret[TRUE].reads = 0 /\ sret[FALSE].reads = 1
    /\ sret[TRUE].ret = Some(~sdefault)
    /\ managers[TRUE].store = DictSet(EmptyDict, AutoupdateKey, ~sdefault)

\* C19: in every state of a manager and for every guild, get_context_value
\* does up to its await what get_global does: it returns the same cached
\* value or suspends on the same backend read, and leaves the same cache and
\* backend; after the await it is get_global that resumes; so a
\* get_context_value that returned has returned what is now cached, which
\* get_global now returns from a caching manager, and when the calls are
\* made one at a time it is the value of the backend.
C19_ContextValueIsGlobal ==
    /\ \A e \in BOOLEAN : \A guild \in Guilds :
          GetContextValueRun(managers[e], guild) = GetGlobalRun(managers[e])
    /\ \A e \in BOOLEAN : \A t \in Tasks :
          stask[e][t].op = "get_context_value" =>
             stask[e][t].k.pc \in {"get_call", "get_resp"}
    /\ \A e \in BOOLEAN :
          (sret[e].op = "get_context_value" /\ sret[e].how = "return") =>
             /\ sret[e].reads = 0 => e
             /\ (sseq /\ AllFree) =>
                   /\ sret[e].ret = Some(ConfigRead(managers[e].store, sdefault))
                   /\ managers[e].cached_global[NoneKey] = sret[e].ret[1]
                   /\ e => GetGlobalRun(managers[e]).ret = sret[e].ret

\* get_context_value answered from the cache of the caching manager
C19_Witness ==
    /\ sseq /\ AllFree
    /\ sret[TRUE].op = "get_context_value"
    /\ sret[TRUE].reads = 0 /\ sret[FALSE].reads = 1
    /\ sret[TRUE].ret = Some(TRUE)
    /\ AutoupdateKey \notin DOMAIN managers[TRUE].store

====
